---------------------------- MODULE Spec2Model ----------------------------
(***************************************************************************)
(* Application state store and identity service of the identity wallet:   *)
(* persistent cells mirrored to localStorage, the error cell with its     *)
(* auto-clear timer, the credential table, and the keychain-backed        *)
(* identity and credential records.                                       *)
(***************************************************************************)
EXTENDS Integers, Sequences, FiniteSets, TLC

(***************************************************************************)
(* JavaScript values.  Every value is a record of the same shape so that  *)
(* values of different types can be compared: t is the result of typeof   *)
(* (with "null" told apart from "object"), b the boolean, s the string as *)
(* a sequence of characters, m the members of an object in insertion      *)
(* order, each a pair <<name, value>>.                                    *)
(***************************************************************************)
Undefined == [t |-> "undefined", b |-> FALSE, s |-> <<>>, m |-> <<>>]

Null == [t |-> "null", b |-> FALSE, s |-> <<>>, m |-> <<>>]

Bool(x) == [t |-> "boolean", b |-> x, s |-> <<>>, m |-> <<>>]

Str(chars) == [t |-> "string", b |-> FALSE, s |-> chars, m |-> <<>>]

Obj(members) == [t |-> "object", b |-> FALSE, s |-> <<>>, m |-> members]

\* if (item) / if (json): ToBoolean of a value
Truthy(v) ==
    CASE v.t = "undefined" -> FALSE
      [] v.t = "null" -> FALSE
      [] v.t = "boolean" -> v.b
      [] v.t = "string" -> v.s # <<>>
      [] OTHER -> TRUE

\* svelte/store safe_not_equal: primitives differ by value, an object always
\* counts as changed
safe_not_equal(a, b) == a # b \/ a.t = "object"

(***************************************************************************)
(* JSON text is a sequence of one-character strings.                      *)
(***************************************************************************)
DQ == "\""

BSL == "\\"

TxtTrue == <<"t", "r", "u", "e">>

TxtFalse == <<"f", "a", "l", "s", "e">>

TxtNull == <<"n", "u", "l", "l">>

TxtUndefined == <<"u", "n", "d", "e", "f", "i", "n", "e", "d">>

RECURSIVE QuoteChars(_)
\* the characters of a string literal, quotes and backslashes escaped
QuoteChars(chars) ==
    IF chars = <<>> THEN <<>>
    ELSE (IF Head(chars) = DQ \/ Head(chars) = BSL
             THEN <<BSL, Head(chars)>>
             ELSE <<Head(chars)>>) \o QuoteChars(Tail(chars))

RECURSIVE JSONstringify(_)
RECURSIVE StringifyMembers(_, _)
RECURSIVE StringifyMember(_, _, _, _)
\* JSON.stringify(v): [defined, s]; undefined has no JSON text and the call
\* returns undefined
JSONstringify(v) ==
    CASE v.t = "undefined" -> [defined |-> FALSE, s |-> <<>>]
      [] v.t = "null" -> [defined |-> TRUE, s |-> TxtNull]
      [] v.t = "boolean" -> [defined |-> TRUE, s |-> IF v.b THEN TxtTrue ELSE TxtFalse]
      [] v.t = "string" -> [defined |-> TRUE, s |-> <<DQ>> \o QuoteChars(v.s) \o <<DQ>>]
      [] OTHER -> [defined |-> TRUE, s |-> <<"{">> \o StringifyMembers(v.m, TRUE) \o <<"}">>]

\* the members of an object; a member whose value is undefined is left out
StringifyMembers(members, first) ==
    IF members = <<>> THEN <<>>
    ELSE StringifyMember(Head(members)[1], JSONstringify(Head(members)[2]),
                         Tail(members), first)

\* the member name with the JSON text json of its value, then the others
StringifyMember(name, json, others, first) ==
    IF ~json.defined THEN StringifyMembers(others, first)
    ELSE (IF first THEN <<>> ELSE <<",">>)
         \o <<DQ>> \o QuoteChars(name) \o <<DQ, ":">> \o json.s
         \o StringifyMembers(others, FALSE)

\* String(x) as applied by localStorage.setItem to its value argument
ToStorageString(json) == IF json.defined THEN json.s ELSE TxtUndefined

StartsWith(text, prefix) ==
    /\ Len(text) >= Len(prefix)
    /\ SubSeq(text, 1, Len(prefix)) = prefix

Drop(text, n) == SubSeq(text, n + 1, Len(text))

ParseFail == [ok |-> FALSE, v |-> Undefined, rest |-> <<>>]

RECURSIVE ParseString(_, _)
\* the rest of a string literal after its opening quote
ParseString(text, acc) ==
    IF text = <<>> THEN ParseFail
    ELSE IF Head(text) = DQ THEN [ok |-> TRUE, v |-> Str(acc), rest |-> Tail(text)]
    ELSE IF Head(text) = BSL
         THEN IF Len(text) >= 2 /\ (text[2] = DQ \/ text[2] = BSL)
              THEN ParseString(Drop(text, 2), Append(acc, text[2]))
              ELSE ParseFail
    ELSE ParseString(Tail(text), Append(acc, Head(text)))

RECURSIVE ParseValue(_)
RECURSIVE ParseMembers(_, _)
RECURSIVE ParseMemberValue(_, _)
RECURSIVE ParseMemberEnd(_, _, _)
\* one JSON value at the head of text
ParseValue(text) ==
    IF text = <<>> THEN ParseFail
    ELSE IF StartsWith(text, TxtTrue) THEN [ok |-> TRUE, v |-> Bool(TRUE), rest |-> Drop(text, 4)]
    ELSE IF StartsWith(text, TxtFalse) THEN [ok |-> TRUE, v |-> Bool(FALSE), rest |-> Drop(text, 5)]
    ELSE IF StartsWith(text, TxtNull) THEN [ok |-> TRUE, v |-> Null, rest |-> Drop(text, 4)]
    ELSE IF Head(text) = DQ THEN ParseString(Tail(text), <<>>)
    ELSE IF Head(text) = "{"
         THEN IF Len(text) >= 2 /\ text[2] = "}"
              THEN [ok |-> TRUE, v |-> Obj(<<>>), rest |-> Drop(text, 2)]
              ELSE ParseMembers(Tail(text), <<>>)
    ELSE ParseFail

\* "name":value pairs up to the closing brace
ParseMembers(text, acc) ==
    IF text = <<>> \/ Head(text) # DQ THEN ParseFail
    ELSE ParseMemberValue(ParseString(Tail(text), <<>>), acc)

\* after the member name: a colon and the value
ParseMemberValue(name, acc) ==
    IF ~name.ok \/ name.rest = <<>> \/ Head(name.rest) # ":" THEN ParseFail
    ELSE ParseMemberEnd(name.v.s, ParseValue(Tail(name.rest)), acc)

\* after the member value: the closing brace, or a comma and more members
ParseMemberEnd(name, val, acc) ==
    IF ~val.ok \/ val.rest = <<>> THEN ParseFail
    ELSE IF Head(val.rest) = "}"
         THEN [ok |-> TRUE, v |-> Obj(Append(acc, <<name, val.v>>)), rest |-> Tail(val.rest)]
    ELSE IF Head(val.rest) = ","
         THEN ParseMembers(Tail(val.rest), Append(acc, <<name, val.v>>))
    ELSE ParseFail

\* JSON.parse(text): ok is FALSE where it throws a SyntaxError
Whole(r) ==
    IF r.ok /\ r.rest = <<>> THEN [ok |-> TRUE, v |-> r.v]
    ELSE [ok |-> FALSE, v |-> Undefined]

JSONparse(text) == Whole(ParseValue(text))

\* the parsed value, or fallback where JSON.parse threw and the catch ran
Caught(parsed, fallback) == IF parsed.ok THEN parsed.v ELSE fallback

\* helpers.parse: JSON.parse with a SyntaxError turned into null
parse(text) == Caught(JSONparse(text), Null)


(***************************************************************************)
(* State.                                                                 *)
(***************************************************************************)
VARIABLES
    status,           \* "running" once store.ts has been evaluated, "crashed" when its evaluation threw
    localStorage,     \* durable storage: key -> slot
    quotaExceeded,    \* environment: localStorage.setItem raises while TRUE
    hasSetupAccount,  \* value of the persistent cell
    dataVersion,      \* value of the persistent cell
    dirty,            \* history: key -> the latest write of the cell to storage raised
    wasSet,           \* history: key -> a set has changed the cell since its creation
    boot,             \* history: key -> what creation read, the value it gave the cell, whether its write raised
    prev,             \* history: key -> the cell's value when the process last ended
    error,            \* value of the error cell
    errorTimeout,     \* the timer handle kept by store.ts, 0 while undefined
    timers,           \* the event loop's pending timeouts: records [id, remaining]
    nextTimerId,      \* the id the next setTimeout returns
    errorAge,         \* history: ms since the error cell took its present truthy value
    supersededAge,    \* history: age of the truthy value the present one replaced, 0 if none
    autoClears,       \* history: timer callbacks run since the last change made by a set
    clearedAtAge,     \* history: errorAge when the timer callback last ran
    tables,           \* heap: reference -> table object (credential type -> entry reference)
    entries,          \* heap: reference -> entry object [heading, subheading, data]
    defaultCredentials, \* reference of the exported default table
    credentials,      \* reference of the table the credentials cell holds
    nextRef,          \* the reference the next allocated object gets
    heldBefore,       \* history: references of the tables the cell held earlier
    logout,           \* history: the latest clearIdentity call (held: the table the cell held at the call;
                      \* untouched: no credentials.update since the call, or since start-up)
    keychain,         \* the keychain's storage: identifier -> slot
    origin,           \* history: identifier -> the call that wrote the entry and its argument
    purged,           \* history: identifier -> what clearIdentity's purge removed ("no": not purged, or written since)
    kcOps,            \* keychain calls in flight
    retrieved,        \* history: how the latest retrieveIdentity / retrieveCredential settled
    calls,            \* createCredential / createVerifiablePresentations: function -> call in progress
    modalStatus,      \* value of the cell: [active, type, props]
    landingIndex,     \* value of the cell
    activeCredentialForInfo, \* value of the cell: a credential type or "null"
    socketConnectionState,   \* value of the cell: [state, payload]
    qrCode            \* value of the cell

cellVars == <<status, localStorage, quotaExceeded, hasSetupAccount, dataVersion,
              dirty, wasSet, boot, prev>>

errorVars == <<error, errorTimeout, timers, nextTimerId, errorAge, supersededAge,
               autoClears, clearedAtAge>>

credentialVars == <<tables, entries, defaultCredentials, credentials, nextRef,
                    heldBefore, logout>>

keychainVars == <<keychain, origin, purged, kcOps, retrieved>>

plainVars == <<modalStatus, landingIndex, activeCredentialForInfo, socketConnectionState,
               qrCode>>

vars == <<cellVars, errorVars, credentialVars, keychainVars, calls, plainVars>>

(***************************************************************************)
(* Persistent cells (helpers.persistent).                                 *)
(***************************************************************************)
CellKeys == {"hasSetupAccount", "dataVersion"}

\* the initialValue each cell is created with
initialValue(key) == IF key = "hasSetupAccount" THEN Bool(FALSE) ELSE Undefined

Absent == [has |-> FALSE, s |-> <<>>]

Slot(text) == [has |-> TRUE, s |-> text]

\* variant: the entry is parsed without the test that there is one
\* (JSON.parse(null) is null)
persistentReadUnguarded(key, initial, ls) ==
    IF ls[key].has THEN Caught(JSONparse(ls[key].s), initial) ELSE Null

\* the value persistent() gives the cell: the parsed entry when there is a
\* non-empty one that parses, initialValue otherwise (a SyntaxError is caught)
persistentRead(key, initial, ls) ==
    IF ls[key].has /\ ls[key].s # <<>>
    THEN Caught(JSONparse(ls[key].s), initial)
    ELSE initial

\* variant: the subscriber writes truthy values only
persistentWriteTruthy(key, value, ls, quota) ==
    IF ~Truthy(value) THEN [ls |-> ls, threw |-> FALSE]
    ELSE IF quota THEN [ls |-> ls, threw |-> TRUE]
    ELSE [ls |-> [ls EXCEPT ![key] = Slot(ToStorageString(JSONstringify(value)))],
          threw |-> FALSE]

\* variant: the subscriber of every cell writes under the key of hasSetupAccount
persistentWriteOneKey(key, value, ls, quota) ==
    IF quota THEN [ls |-> ls, threw |-> TRUE]
    ELSE [ls |-> [ls EXCEPT !["hasSetupAccount"] =
                                Slot(ToStorageString(JSONstringify(value)))],
          threw |-> FALSE]

\* the subscriber persistent() registers: localStorage.setItem(key,
\* JSON.stringify($value)); threw when setItem raises, the slot then keeps its
\* content
persistentWrite(key, value, ls, quota) ==
    IF quota THEN [ls |-> ls, threw |-> TRUE]
    ELSE [ls |-> [ls EXCEPT ![key] = Slot(ToStorageString(JSONstringify(value)))],
          threw |-> FALSE]

\* writable(value) and subscribe, which runs the subscriber at once
written(value, w) == [value |-> value, ls |-> w.ls, threw |-> w.threw]

subscribed(value, key, ls, quota) == written(value, persistentWrite(key, value, ls, quota))

\* persistent(key, initialValue): read, writable(value), subscribe
persistent(key, initial, ls, quota) ==
    subscribed(persistentRead(key, initial, ls), key, ls, quota)

\* set on a persistent cell: nothing when the value is unchanged, otherwise
\* the value is replaced and the subscriber runs before set returns
notified(value, w) == [value |-> value, ls |-> w.ls, threw |-> w.threw, changed |-> TRUE]

cellSet(key, old, new, ls, quota) ==
    IF ~safe_not_equal(old, new)
    THEN [value |-> old, ls |-> ls, threw |-> FALSE, changed |-> FALSE]
    ELSE notified(new, persistentWrite(key, new, ls, quota))

(***************************************************************************)
(* Error cell and its timer (store.ts).                                   *)
(***************************************************************************)
ERROR_TIMEOUT == 3500

\* variant: the cancellation is lost
clearTimeoutLost(tm, id) == tm

clearTimeout(tm, id) == {t \in tm : t.id # id}

setTimeout(tm, id, delay) == tm \cup {[id |-> id, remaining |-> delay]}

\* variant: a truthy item leaves a pending timer running instead of restarting it
errorSubscriberNoRestart(item, tm, handle, nid) ==
    IF Truthy(item) /\ (\E t \in tm : t.id = handle)
    THEN [timers |-> tm, errorTimeout |-> handle, nextTimerId |-> nid]
    ELSE IF Truthy(item)
    THEN [timers |-> tm \cup {[id |-> nid, remaining |-> ERROR_TIMEOUT]},
          errorTimeout |-> nid, nextTimerId |-> nid + 1]
    ELSE [timers |-> {t \in tm : t.id # handle}, errorTimeout |-> handle,
          nextTimerId |-> nid]

\* variant: the pending timer is cancelled for a truthy item only
errorSubscriberKeepOnFalsy(item, tm, handle, nid) ==
    IF Truthy(item)
    THEN [timers |-> setTimeout(clearTimeout(tm, handle), nid, ERROR_TIMEOUT),
          errorTimeout |-> nid, nextTimerId |-> nid + 1]
    ELSE [timers |-> tm, errorTimeout |-> handle, nextTimerId |-> nid]

\* the subscriber of the error cell: cancel the timer of the handle, and for a
\* truthy item schedule a new one and keep its handle
errorSubscriber(item, tm, handle, nid) ==
    LET cleared == clearTimeout(tm, handle)
    IN IF Truthy(item)
       THEN [timers |-> setTimeout(cleared, nid, ERROR_TIMEOUT),
             errorTimeout |-> nid, nextTimerId |-> nid + 1]
       ELSE [timers |-> cleared, errorTimeout |-> handle, nextTimerId |-> nid]


(***************************************************************************)
(* Credential table (store.ts).  Objects live in a heap and are named by  *)
(* references, so that sharing between tables can be told from copying.   *)
(***************************************************************************)
CredentialOrder == <<"personal", "immunity", "visa", "company", "bank", "insurance",
                     "futureCommitment", "presentCommitment">>

CredentialTypes == {CredentialOrder[i] : i \in 1..Len(CredentialOrder)}

IndexOf(type) == CHOOSE i \in 1..Len(CredentialOrder) : CredentialOrder[i] = type

DefaultHeading(type) ==
    CASE type = "personal" -> "Home Office"
      [] type = "immunity" -> "Public Health Authority"
      [] type = "visa" -> "Foreign Border Agency"
      [] type = "company" -> "Company House"
      [] type = "bank" -> "SNS Bank"
      [] type = "insurance" -> "Insurance"
      [] type = "futureCommitment" -> "The Far Future Foundation"
      [] type = "presentCommitment" -> "The Now Foundation"

DefaultSubheading(type) ==
    CASE type = "personal" -> "My Identity"
      [] type = "immunity" -> "Health Certificate"
      [] type = "visa" -> "Travel Visa"
      [] type = "company" -> "Business Details"
      [] type = "bank" -> "Bank details"
      [] type = "insurance" -> "Insurance details"
      [] type = "futureCommitment" -> "Future Commitment"
      [] type = "presentCommitment" -> "Present Commitment"

\* variant: the literal lacks the entry presentCommitment
defaultCredentialsLiteralShort(ref) ==
    [ref |-> ref,
     tables |-> (ref :> [type \in CredentialTypes \ {"presentCommitment"} |->
                            ref + IndexOf(type)]),
     entries |-> [r \in (ref + 1)..(ref + Len(CredentialOrder) - 1) |->
                     [heading |-> DefaultHeading(CredentialOrder[r - ref]),
                      subheading |-> DefaultSubheading(CredentialOrder[r - ref]),
                      data |-> Null]],
     nextRef |-> ref + Len(CredentialOrder) + 1]

\* the object literal of defaultCredentials, allocated from reference ref on
defaultCredentialsLiteral(ref) ==
    [ref |-> ref,
     tables |-> (ref :> [type \in CredentialTypes |-> ref + IndexOf(type)]),
     entries |-> [r \in (ref + 1)..(ref + Len(CredentialOrder)) |->
                     [heading |-> DefaultHeading(CredentialOrder[r - ref]),
                      subheading |-> DefaultSubheading(CredentialOrder[r - ref]),
                      data |-> Null]],
     nextRef |-> ref + Len(CredentialOrder) + 1]

\* lodash cloneDeep of the table src: a new table object with the keys of src,
\* whose entries are new objects with the fields of the entries of src
cloneDeep(src, tbls, ents, ref) ==
    [ref |-> ref,
     tables |-> (ref :> [type \in DOMAIN tbls[src] |-> ref + IndexOf(type)]),
     entries |-> [r \in {ref + IndexOf(type) : type \in DOMAIN tbls[src]} |->
                     ents[tbls[src][CredentialOrder[r - ref]]]],
     nextRef |-> ref + Len(CredentialOrder) + 1]

\* what stays in the heap: the objects the tables in keep refer to
Retain(tbls, ents, keep) ==
    [tables |-> [r \in keep |-> tbls[r]],
     entries |-> [r \in UNION {{tbls[t][type] : type \in DOMAIN tbls[t]} : t \in keep} |->
                     ents[r]]]


(***************************************************************************)
(* Keychain collaborator: set(key, value), get(key) (rejects if absent),  *)
(* clear().  Values are opaque strings.                                   *)
(***************************************************************************)
KeychainSet(kc, id, text) == [kc EXCEPT ![id] = Slot(text)]

KeychainGet(kc, id) ==
    IF kc[id].has THEN [rejected |-> FALSE, value |-> kc[id].s]
    ELSE [rejected |-> TRUE, value |-> <<>>]

KeychainClear(kc) == [id \in DOMAIN kc |-> Absent]

(***************************************************************************)
(* Identity service (identity/index.ts).                                  *)
(***************************************************************************)
TxtDid == <<"d", "i", "d">>

TxtKey == <<"k", "e", "y">>

TxtPublic == <<"p", "u", "b", "l", "i", "c">>

TxtSecret == <<"s", "e", "c", "r", "e", "t">>

TxtType == <<"t", "y", "p", "e">>

\* an Identity object { did, key: { public, secret, type } }
Identity(did, public, secret, type) ==
    Obj(<< <<TxtDid, Str(did)>>,
           <<TxtKey, Obj(<< <<TxtPublic, Str(public)>>,
                            <<TxtSecret, Str(secret)>>,
                            <<TxtType, Str(type)>> >>)>> >>)

\* variant: the identity is handed to the keychain as String(ident)
storeIdentityTextCoerced(ident) ==
    <<"[", "o", "b", "j", "e", "c", "t", " ", "O", "b", "j", "e", "c", "t", "]">>

\* the string storeIdentity hands to Keychain.set
storeIdentityText(ident) == JSONstringify(ident).s

\* the string storeCredential hands to Keychain.set
storeCredentialText(credential) == JSONstringify(credential).s

\* variant: the rejection of Keychain.get is not caught
retrieveIdentitySettleUncaught(got) ==
    IF got.rejected THEN [outcome |-> "rejected", value |-> Undefined]
    ELSE [outcome |-> "resolved", value |-> parse(got.value)]

\* retrieveIdentity: Keychain.get(identifier).then(parse).catch(() => null)
retrieveIdentitySettle(got) ==
    IF got.rejected THEN [outcome |-> "resolved", value |-> Null]
    ELSE [outcome |-> "resolved", value |-> parse(got.value)]

\* retrieveCredential: Keychain.get(credentialId).then(parse).catch(() => null)
retrieveCredentialSettle(got) ==
    IF got.rejected THEN [outcome |-> "resolved", value |-> Null]
    ELSE [outcome |-> "resolved", value |-> parse(got.value)]

LogoutSteps == {"hasSetupAccount", "dataVersion", "credentials", "keychain"}

\* clearIdentity up to its return or its exception: s1 and s2 are what the two
\* sets of the persistent cells give; a set that throws ends the call
clearIdentityOutcome(s1, s2) ==
    IF s1.threw THEN [threw |-> TRUE, steps |-> {"hasSetupAccount"}, ls |-> s1.ls]
    ELSE IF s2.threw
    THEN [threw |-> TRUE, steps |-> {"hasSetupAccount", "dataVersion"}, ls |-> s2.ls]
    ELSE [threw |-> FALSE, steps |-> LogoutSteps, ls |-> s2.ls]

\* createCredential / createVerifiablePresentations after identity.init()
afterInit(call, ok) ==
    IF ok THEN [call EXCEPT !.pc = "resolve", !.log = Append(@, [step |-> "init", ok |-> TRUE])]
    ELSE [call EXCEPT !.pc = "thrown", !.log = Append(@, [step |-> "init", ok |-> FALSE])]

\* after client.resolve(issuer.did): the document is built and the credential
\* or presentation signed, then the verification is awaited
afterResolve(call, ok, signed) ==
    IF ~ok
    THEN [call EXCEPT !.pc = "thrown", !.log = Append(@, [step |-> "resolve", ok |-> FALSE])]
    ELSE IF ~signed
    THEN [call EXCEPT !.pc = "thrown",
                      !.log = @ \o <<[step |-> "resolve", ok |-> TRUE],
                                     [step |-> "sign", ok |-> FALSE]>>]
    ELSE [call EXCEPT !.pc = "check",
                      !.log = @ \o <<[step |-> "resolve", ok |-> TRUE],
                                     [step |-> "sign", ok |-> TRUE]>>]

\* after await client.checkCredential / client.checkPresentation: a rejection
\* is thrown on; the report the promise is fulfilled with (verified or not) is
\* not read, and the signed JSON is returned
afterCheck(call, fulfilled, verified) ==
    IF fulfilled
    THEN [pc |-> "returned",
          log |-> Append(call.log, [step |-> "check", ok |-> verified]),
          result |-> "signed"]
    ELSE [pc |-> "thrown", log |-> Append(call.log, [step |-> "check", ok |-> FALSE]),
          result |-> "none"]

(***************************************************************************)
(* Bounds of the model.                                                   *)
(***************************************************************************)
\* ids setTimeout hands out in one run of the process
MaxTimerId == 3

\* the step, in ms, by which the clock advances between tasks
TimeStep == 500

\* clearIdentity calls in one run of the process
MaxLogouts == 1

\* entries of the held table that carry data at the same time
MaxPopulated == 1

\* keychain calls in flight at the same time
MaxPending == 2

(***************************************************************************)
(* Inputs.                                                                *)
(***************************************************************************)
HasSetupValues == {Bool(TRUE), Bool(FALSE), Undefined}

DataVersionValues == {Undefined, Null, Str(<<>>), Str(<<"1">>), Str(<<DQ, BSL>>)}

ErrorValues == {Null, Str(<<>>), Str(<<"a">>), Str(<<"b">>)}

KeychainIds == {"did", "personal"}

IdentityValues == {Identity(<<"d", "1">>, <<"p">>, <<"s", DQ>>, <<"e">>)}

CredentialValues == {Obj(<< << <<"i", "d">>, Str(<<BSL, "1">>) >> >>)}

\* strings found in the keychain that no JSON.stringify produced
ForeignTexts == {<<"{", DQ, "d">>}

\* data of a populated credential entry
DataValues == {Null, Obj(<< << <<"n">>, Str(<<"x">>) >> >>)}

CreateFns == {"createCredential", "createVerifiablePresentations"}

ModalStatusValues == {[active |-> FALSE, type |-> "null", props |-> "null"],
                      [active |-> TRUE, type |-> "share", props |-> "null"]}

LandingIndexValues == {0, 1}

ActiveCredentialValues == {"null", "personal"}

SocketConnectionValues == {[state |-> "disconnected", payload |-> "null"],
                           [state |-> "connected", payload |-> "null"]}

QrCodeValues == {"", "q"}

(***************************************************************************)
(* Evaluation of store.ts when the process starts.                        *)
(***************************************************************************)
NoBoot == [state |-> "none", slot |-> Absent, value |-> Undefined, raised |-> FALSE]

\* the outcome of evaluating the two persistent(...) lines, hs and dv being
\* what the two calls give; an exception of the first ends the evaluation
loadedCells(ls, hs, dv) ==
    IF hs.threw
    THEN [status |-> "crashed", hasSetupAccount |-> Undefined, dataVersion |-> Undefined,
          ls |-> hs.ls,
          boot |-> [k \in CellKeys |->
                      IF k = "hasSetupAccount"
                      THEN [state |-> "failed", slot |-> ls[k], value |-> Undefined,
                            raised |-> hs.threw]
                      ELSE NoBoot]]
    ELSE IF dv.threw
    THEN [status |-> "crashed", hasSetupAccount |-> Undefined, dataVersion |-> Undefined,
          ls |-> dv.ls,
          boot |-> [k \in CellKeys |->
                      IF k = "hasSetupAccount"
                      THEN [state |-> "created", slot |-> ls[k], value |-> hs.value,
                            raised |-> FALSE]
                      ELSE [state |-> "failed", slot |-> ls[k], value |-> Undefined,
                            raised |-> dv.threw]]]
    ELSE [status |-> "running", hasSetupAccount |-> hs.value, dataVersion |-> dv.value,
          ls |-> dv.ls,
          boot |-> [k \in CellKeys |->
                      [state |-> "created", slot |-> ls[k],
                       value |-> IF k = "hasSetupAccount" THEN hs.value ELSE dv.value,
                       raised |-> FALSE]]]

\* dataVersion is created on the storage the creation of hasSetupAccount left
loadDataVersion(ls, quota, hs) ==
    loadedCells(ls, hs, persistent("dataVersion", initialValue("dataVersion"), hs.ls, quota))

loadCells(ls, quota) ==
    loadDataVersion(ls, quota,
                    persistent("hasSetupAccount", initialValue("hasSetupAccount"), ls, quota))

\* defaultCredentials and the table the credentials cell starts with
loadCredentials ==
    LET d == defaultCredentialsLiteral(1)
        c == cloneDeep(d.ref, d.tables, d.entries, d.nextRef)
    IN [tables |-> d.tables @@ c.tables, entries |-> d.entries @@ c.entries,
        defaultCredentials |-> d.ref, credentials |-> c.ref, nextRef |-> c.nextRef]

NoLogout == [called |-> FALSE, steps |-> {}, threw |-> FALSE, promise |-> "none",
             untouched |-> TRUE, held |-> 0]

NoRetrieval == [fn |-> "none", id |-> "did", outcome |-> "none", value |-> Undefined,
                read |-> Absent, origin |-> [by |-> "none", v |-> Undefined],
                purged |-> "no"]

IdleCall == [pc |-> "idle", log |-> <<>>, result |-> "none"]

\* the values the plain cells are created with
loadPlain ==
    [modalStatus |-> [active |-> FALSE, type |-> "null", props |-> "null"],
     landingIndex |-> 0,
     activeCredentialForInfo |-> "null",
     socketConnectionState |-> [state |-> "disconnected", payload |-> "null"],
     qrCode |-> ""]

Init ==
    \E cells \in {loadCells([k \in CellKeys |-> Absent], FALSE)}, heap \in {loadCredentials} :
       /\ status = cells.status
       /\ localStorage = cells.ls
       /\ quotaExceeded = FALSE
       /\ hasSetupAccount = cells.hasSetupAccount
       /\ dataVersion = cells.dataVersion
       /\ dirty = [k \in CellKeys |-> FALSE]
       /\ wasSet = [k \in CellKeys |-> FALSE]
       /\ boot = cells.boot
       /\ prev = [k \in CellKeys |-> [ok |-> FALSE, value |-> Undefined]]
       /\ error = Null
       /\ errorTimeout = 0
       /\ timers = {}
       /\ nextTimerId = 1
       /\ errorAge = 0
       /\ supersededAge = 0
       /\ autoClears = 0
       /\ clearedAtAge = 0
       /\ tables = heap.tables
       /\ entries = heap.entries
       /\ defaultCredentials = heap.defaultCredentials
       /\ credentials = heap.credentials
       /\ nextRef = heap.nextRef
       /\ heldBefore = {}
       /\ logout = NoLogout
       /\ keychain = [id \in KeychainIds |-> Absent]
       /\ origin = [id \in KeychainIds |-> [by |-> "none", v |-> Undefined]]
       /\ purged = [id \in KeychainIds |-> "no"]
       /\ kcOps = {}
       /\ retrieved = NoRetrieval
       /\ calls = [f \in CreateFns |-> IdleCall]
       /\ modalStatus = loadPlain.modalStatus
       /\ landingIndex = loadPlain.landingIndex
       /\ activeCredentialForInfo = loadPlain.activeCredentialForInfo
       /\ socketConnectionState = loadPlain.socketConnectionState
       /\ qrCode = loadPlain.qrCode

\* The process ends and starts again: memory is fresh, localStorage and the
\* keychain are kept (wipe: the user cleared the app's local storage while it
\* was not running).  Keychain writes in flight still complete natively;
\* nobody is left to receive the result of a read.
Restart(wipe) ==
    \E cells \in {loadCells(IF wipe THEN [k \in CellKeys |-> Absent] ELSE localStorage,
                             quotaExceeded)},
       heap \in {loadCredentials} :
       /\ status' = cells.status
       /\ localStorage' = cells.ls
       /\ hasSetupAccount' = cells.hasSetupAccount
       /\ dataVersion' = cells.dataVersion
       /\ dirty' = [k \in CellKeys |-> FALSE]
       /\ wasSet' = [k \in CellKeys |-> FALSE]
       /\ boot' = cells.boot
       /\ prev' = [k \in CellKeys |->
                     IF status = "running" /\ ~wipe /\ ~dirty[k] /\ wasSet[k]
                     THEN [ok |-> TRUE,
                           value |-> IF k = "hasSetupAccount" THEN hasSetupAccount
                                     ELSE dataVersion]
                     ELSE [ok |-> FALSE, value |-> Undefined]]
       /\ error' = Null
       /\ errorTimeout' = 0
       /\ timers' = {}
       /\ nextTimerId' = 1
       /\ errorAge' = 0
       /\ supersededAge' = 0
       /\ autoClears' = 0
       /\ clearedAtAge' = 0
       /\ tables' = heap.tables
       /\ entries' = heap.entries
       /\ defaultCredentials' = heap.defaultCredentials
       /\ credentials' = heap.credentials
       /\ nextRef' = heap.nextRef
       /\ heldBefore' = {}
       /\ logout' = NoLogout
       /\ kcOps' = {o \in kcOps : o.op # "get"}
       /\ retrieved' = NoRetrieval
       /\ calls' = [f \in CreateFns |-> IdleCall]
       /\ modalStatus' = loadPlain.modalStatus
       /\ landingIndex' = loadPlain.landingIndex
       /\ activeCredentialForInfo' = loadPlain.activeCredentialForInfo
       /\ socketConnectionState' = loadPlain.socketConnectionState
       /\ qrCode' = loadPlain.qrCode
       /\ UNCHANGED <<quotaExceeded, keychain, origin, purged>>

\* environment: localStorage starts or stops refusing writes
QuotaChange ==
    /\ quotaExceeded' = ~quotaExceeded
    /\ UNCHANGED <<status, localStorage, hasSetupAccount, dataVersion, dirty, wasSet,
                   boot, prev, errorVars, credentialVars, keychainVars, calls, plainVars>>

(***************************************************************************)
(* Sets of the persistent cells.                                          *)
(***************************************************************************)
\* history kept for a set of the cell key with outcome r
Marked(flags, key, r, value) == IF r.changed THEN [flags EXCEPT ![key] = value] ELSE flags

hasSetupAccountSet(v) ==
    \E r \in {cellSet("hasSetupAccount", hasSetupAccount, v, localStorage, quotaExceeded)} :
       /\ status = "running"
       /\ hasSetupAccount' = r.value
       /\ localStorage' = r.ls
       /\ dirty' = Marked(dirty, "hasSetupAccount", r, r.threw)
       /\ wasSet' = Marked(wasSet, "hasSetupAccount", r, TRUE)
       /\ UNCHANGED <<status, quotaExceeded, dataVersion, boot, prev, errorVars,
                      credentialVars, keychainVars, calls, plainVars>>

dataVersionSet(v) ==
    \E r \in {cellSet("dataVersion", dataVersion, v, localStorage, quotaExceeded)} :
       /\ status = "running"
       /\ dataVersion' = r.value
       /\ localStorage' = r.ls
       /\ dirty' = Marked(dirty, "dataVersion", r, r.threw)
       /\ wasSet' = Marked(wasSet, "dataVersion", r, TRUE)
       /\ UNCHANGED <<status, quotaExceeded, hasSetupAccount, boot, prev, errorVars,
                      credentialVars, keychainVars, calls, plainVars>>

(***************************************************************************)
(* Sets of the plain cells: writable(...) without subscribers in the      *)
(* store.                                                                 *)
(***************************************************************************)
modalStatusSet(v) ==
    /\ status = "running"
    /\ modalStatus' = v
    /\ UNCHANGED <<landingIndex, activeCredentialForInfo, socketConnectionState, qrCode,
                   cellVars, errorVars, credentialVars, keychainVars, calls>>

landingIndexSet(v) ==
    /\ status = "running"
    /\ landingIndex' = v
    /\ UNCHANGED <<modalStatus, activeCredentialForInfo, socketConnectionState, qrCode,
                   cellVars, errorVars, credentialVars, keychainVars, calls>>

activeCredentialForInfoSet(v) ==
    /\ status = "running"
    /\ activeCredentialForInfo' = v
    /\ UNCHANGED <<modalStatus, landingIndex, socketConnectionState, qrCode,
                   cellVars, errorVars, credentialVars, keychainVars, calls>>

socketConnectionStateSet(v) ==
    /\ status = "running"
    /\ socketConnectionState' = v
    /\ UNCHANGED <<modalStatus, landingIndex, activeCredentialForInfo, qrCode,
                   cellVars, errorVars, credentialVars, keychainVars, calls>>

qrCodeSet(v) ==
    /\ status = "running"
    /\ qrCode' = v
    /\ UNCHANGED <<modalStatus, landingIndex, activeCredentialForInfo, socketConnectionState,
                   cellVars, errorVars, credentialVars, keychainVars, calls>>

(***************************************************************************)
(* The error cell.                                                        *)
(***************************************************************************)
Min(a, b) == IF a < b THEN a ELSE b

\* error.set(v) by the application
errorSet(v) ==
    LET sub == errorSubscriber(v, timers, errorTimeout, nextTimerId)
    IN /\ status = "running"
       /\ nextTimerId <= MaxTimerId
       /\ safe_not_equal(error, v)
       /\ error' = v
       /\ timers' = sub.timers
       /\ errorTimeout' = sub.errorTimeout
       /\ nextTimerId' = sub.nextTimerId
       /\ errorAge' = 0
       /\ supersededAge' = IF Truthy(error) /\ Truthy(v) THEN errorAge ELSE 0
       /\ autoClears' = 0
       /\ clearedAtAge' = 0
       /\ UNCHANGED <<cellVars, credentialVars, keychainVars, calls, plainVars>>

\* error.set(v) with the value the cell already holds: set returns at once
errorSetSame(v) ==
    /\ status = "running"
    /\ ~safe_not_equal(error, v)
    /\ UNCHANGED vars

\* a timeout is due: it leaves the pending timers and its callback runs
\* error.set(null), which runs the subscriber when the cell held another value
timerFire ==
    \E t \in timers :
        LET rest == timers \ {t}
            sub == errorSubscriber(Null, rest, errorTimeout, nextTimerId)
        IN /\ t.remaining = 0
           /\ IF safe_not_equal(error, Null)
              THEN /\ error' = Null
                   /\ timers' = sub.timers
                   /\ errorTimeout' = sub.errorTimeout
                   /\ nextTimerId' = sub.nextTimerId
              ELSE /\ timers' = rest
                   /\ UNCHANGED <<error, errorTimeout, nextTimerId>>
           /\ autoClears' = Min(autoClears + 1, 2)
           /\ clearedAtAge' = errorAge
           /\ errorAge' = 0
           /\ UNCHANGED <<supersededAge, cellVars, credentialVars, keychainVars, calls, plainVars>>

\* time passes, by TimeStep or up to the next due timer, never beyond it
advance ==
    /\ timers # {}
    /\ \E d \in {TimeStep} \cup {t.remaining : t \in timers} :
          /\ d > 0
          /\ \A t \in timers : t.remaining >= d
          /\ timers' = {[t EXCEPT !.remaining = @ - d] : t \in timers}
          /\ errorAge' = IF Truthy(error) THEN errorAge + d ELSE errorAge
    /\ UNCHANGED <<error, errorTimeout, nextTimerId, supersededAge, autoClears,
                   clearedAtAge, cellVars, credentialVars, keychainVars, calls, plainVars>>

(***************************************************************************)
(* The credentials cell.                                                  *)
(***************************************************************************)
Populated == {type \in CredentialTypes : entries[tables[credentials][type]].data # Null}

\* credentials.update by the application: the data of one entry of the held
\* table is assigned in place and the table is set again
credentialsUpdate(type, data) ==
    /\ status = "running"
    /\ data # Null => Cardinality(Populated \ {type}) < MaxPopulated
    /\ entries' = [entries EXCEPT ![tables[credentials][type]].data = data]
    /\ logout' = [logout EXCEPT !.untouched = FALSE]
    /\ UNCHANGED <<tables, defaultCredentials, credentials, nextRef, heldBefore,
                   cellVars, errorVars, keychainVars, calls, plainVars>>

(***************************************************************************)
(* clearIdentity and the keychain calls.                                  *)
(***************************************************************************)
ClearOp == [op |-> "clear", id |-> "did", text |-> <<>>, by |-> "clearIdentity", v |-> Undefined]

SetOp(id, text, by, v) == [op |-> "set", id |-> id, text |-> text, by |-> by, v |-> v]

GetOp(id, by) == [op |-> "get", id |-> id, text |-> <<>>, by |-> by, v |-> Undefined]

CanIssue(o) == o \notin kcOps /\ Cardinality(kcOps) < MaxPending

\* clearIdentity(): the call up to the point where it returns the promise of
\* Keychain.clear(), or throws
clearIdentity ==
    /\ status = "running"
    /\ Cardinality(heldBefore) < MaxLogouts
    /\ CanIssue(ClearOp)
    /\ \E s1 \in {cellSet("hasSetupAccount", hasSetupAccount, Bool(FALSE), localStorage,
                          quotaExceeded)} :
       \E s2 \in {cellSet("dataVersion", dataVersion, Undefined, s1.ls, quotaExceeded)} :
       \E out \in {clearIdentityOutcome(s1, s2)} :
       \E copy \in {cloneDeep(defaultCredentials, tables, entries, nextRef)} :
       \E heap \in {Retain(tables @@ copy.tables, entries @@ copy.entries,
                           {defaultCredentials, copy.ref})} :
          /\ hasSetupAccount' = s1.value
          /\ dataVersion' = IF s1.threw THEN dataVersion ELSE s2.value
          /\ localStorage' = out.ls
          /\ dirty' = IF s1.threw THEN Marked(dirty, "hasSetupAccount", s1, s1.threw)
                      ELSE Marked(Marked(dirty, "hasSetupAccount", s1, s1.threw),
                                  "dataVersion", s2, s2.threw)
          /\ wasSet' = IF s1.threw THEN Marked(wasSet, "hasSetupAccount", s1, TRUE)
                       ELSE Marked(Marked(wasSet, "hasSetupAccount", s1, TRUE),
                                   "dataVersion", s2, TRUE)
          /\ IF out.threw
             THEN UNCHANGED <<tables, entries, credentials, nextRef, heldBefore, kcOps>>
             ELSE /\ tables' = heap.tables
                  /\ entries' = heap.entries
                  /\ credentials' = copy.ref
                  /\ nextRef' = copy.nextRef
                  /\ heldBefore' = heldBefore \cup {credentials}
                  /\ kcOps' = kcOps \cup {ClearOp}
          /\ logout' = [called |-> TRUE, steps |-> out.steps, threw |-> out.threw,
                        promise |-> IF out.threw THEN "none" ELSE "pending",
                        untouched |-> TRUE, held |-> credentials]
    /\ UNCHANGED <<status, quotaExceeded, boot, prev, defaultCredentials, keychain,
                   origin, purged, retrieved, errorVars, calls, plainVars>>

storeIdentity(id, ident) ==
    /\ status = "running"
    /\ CanIssue(SetOp(id, storeIdentityText(ident), "storeIdentity", ident))
    /\ kcOps' = kcOps \cup {SetOp(id, storeIdentityText(ident), "storeIdentity", ident)}
    /\ UNCHANGED <<keychain, origin, purged, retrieved, cellVars, errorVars,
                   credentialVars, calls, plainVars>>

storeCredential(id, credential) ==
    /\ status = "running"
    /\ CanIssue(SetOp(id, storeCredentialText(credential), "storeCredential", credential))
    /\ kcOps' = kcOps \cup {SetOp(id, storeCredentialText(credential), "storeCredential",
                                  credential)}
    /\ UNCHANGED <<keychain, origin, purged, retrieved, cellVars, errorVars,
                   credentialVars, calls, plainVars>>

\* Keychain.set called by code outside the identity service
keychainSetForeign(id, text) ==
    /\ status = "running"
    /\ CanIssue(SetOp(id, text, "other", Undefined))
    /\ kcOps' = kcOps \cup {SetOp(id, text, "other", Undefined)}
    /\ UNCHANGED <<keychain, origin, purged, retrieved, cellVars, errorVars,
                   credentialVars, calls, plainVars>>

retrieveIdentity(id) ==
    /\ status = "running"
    /\ CanIssue(GetOp(id, "retrieveIdentity"))
    /\ kcOps' = kcOps \cup {GetOp(id, "retrieveIdentity")}
    /\ UNCHANGED <<keychain, origin, purged, retrieved, cellVars, errorVars,
                   credentialVars, calls, plainVars>>

retrieveCredential(id) ==
    /\ status = "running"
    /\ CanIssue(GetOp(id, "retrieveCredential"))
    /\ kcOps' = kcOps \cup {GetOp(id, "retrieveCredential")}
    /\ UNCHANGED <<keychain, origin, purged, retrieved, cellVars, errorVars,
                   credentialVars, calls, plainVars>>

\* the keychain carries out a set
keychainSetDone ==
    \E o \in kcOps :
        /\ o.op = "set"
        /\ keychain' = KeychainSet(keychain, o.id, o.text)
        /\ origin' = [origin EXCEPT ![o.id] = [by |-> o.by, v |-> o.v]]
        /\ purged' = [purged EXCEPT ![o.id] = "no"]
        /\ kcOps' = kcOps \ {o}
        /\ UNCHANGED <<retrieved, cellVars, errorVars, credentialVars, calls, plainVars>>

\* the keychain answers a get and the promise of the retrieval settles
keychainGetDone ==
    \E o \in kcOps :
        /\ o.op = "get"
        /\ \E settled \in {IF o.by = "retrieveIdentity"
                           THEN retrieveIdentitySettle(KeychainGet(keychain, o.id))
                           ELSE retrieveCredentialSettle(KeychainGet(keychain, o.id))} :
              retrieved' = [fn |-> o.by, id |-> o.id, outcome |-> settled.outcome,
                            value |-> settled.value, read |-> keychain[o.id],
                            origin |-> origin[o.id], purged |-> purged[o.id]]
        /\ kcOps' = kcOps \ {o}
        /\ UNCHANGED <<keychain, origin, purged, cellVars, errorVars, credentialVars, calls, plainVars>>

\* the keychain carries out the clear, or refuses it
keychainClearDone(ok) ==
    /\ ClearOp \in kcOps
    /\ kcOps' = kcOps \ {ClearOp}
    /\ IF ok
       THEN /\ keychain' = KeychainClear(keychain)
            /\ origin' = [id \in KeychainIds |-> [by |-> "none", v |-> Undefined]]
            /\ purged' = [id \in KeychainIds |->
                             IF keychain[id].has THEN origin[id].by ELSE "empty"]
       ELSE UNCHANGED <<keychain, origin, purged>>
    /\ logout' = IF logout.promise = "pending"
                 THEN [logout EXCEPT !.promise = IF ok THEN "resolved" ELSE "rejected"]
                 ELSE logout
    /\ UNCHANGED <<retrieved, cellVars, errorVars, tables, entries, defaultCredentials,
                   credentials, nextRef, heldBefore, calls, plainVars>>

(***************************************************************************)
(* createCredential and createVerifiablePresentations: a call is          *)
(* suspended at each await; the identity library settles the awaited      *)
(* promise either way.                                                    *)
(***************************************************************************)
Suspended(f, pc) == status = "running" /\ calls[f].pc = pc

Continue(f, call) ==
    /\ calls' = [calls EXCEPT ![f] = call]
    /\ UNCHANGED <<cellVars, errorVars, credentialVars, keychainVars, plainVars>>

createCredential ==
    /\ status = "running"
    /\ calls["createCredential"].pc \in {"idle", "returned", "thrown"}
    /\ Continue("createCredential", [pc |-> "init", log |-> <<>>, result |-> "none"])

createCredentialInit(ok) ==
    /\ Suspended("createCredential", "init")
    /\ Continue("createCredential", afterInit(calls["createCredential"], ok))

createCredentialResolve(ok, signed) ==
    /\ Suspended("createCredential", "resolve")
    /\ Continue("createCredential", afterResolve(calls["createCredential"], ok, signed))

createCredentialCheck(fulfilled, verified) ==
    /\ Suspended("createCredential", "check")
    /\ Continue("createCredential", afterCheck(calls["createCredential"], fulfilled, verified))

createVerifiablePresentations ==
    /\ status = "running"
    /\ calls["createVerifiablePresentations"].pc \in {"idle", "returned", "thrown"}
    /\ Continue("createVerifiablePresentations",
                [pc |-> "init", log |-> <<>>, result |-> "none"])

createVerifiablePresentationsInit(ok) ==
    /\ Suspended("createVerifiablePresentations", "init")
    /\ Continue("createVerifiablePresentations",
                afterInit(calls["createVerifiablePresentations"], ok))

createVerifiablePresentationsResolve(ok, signed) ==
    /\ Suspended("createVerifiablePresentations", "resolve")
    /\ Continue("createVerifiablePresentations",
                afterResolve(calls["createVerifiablePresentations"], ok, signed))

createVerifiablePresentationsCheck(fulfilled, verified) ==
    /\ Suspended("createVerifiablePresentations", "check")
    /\ Continue("createVerifiablePresentations",
                afterCheck(calls["createVerifiablePresentations"], fulfilled, verified))

(***************************************************************************)
(* Specifications.                                                        *)
(***************************************************************************)
\* the error cell and its timer
NextError ==
    \/ \E v \in ErrorValues : errorSet(v)
    \/ \E v \in ErrorValues : errorSetSame(v)
    \/ timerFire
    \/ advance
    \/ Restart(FALSE)

SpecError == Init /\ [][NextError]_vars

\* the error cell on an event loop where time passes and due timeouts run
SpecErrorLive == Init /\ [][NextError]_vars /\ WF_vars(advance) /\ WF_vars(timerFire)

\* the persistent cells over restarts
NextCells ==
    \/ \E v \in HasSetupValues : hasSetupAccountSet(v)
    \/ \E v \in DataVersionValues : dataVersionSet(v)
    \/ QuotaChange
    \/ \E wipe \in BOOLEAN : Restart(wipe)

SpecCells == Init /\ [][NextCells]_vars


\* the store with logout: persistent cells, credential table, keychain purge
NextLogout ==
    \/ \E v \in HasSetupValues : hasSetupAccountSet(v)
    \/ \E v \in DataVersionValues : dataVersionSet(v)
    \/ \E type \in CredentialTypes, data \in DataValues : credentialsUpdate(type, data)
    \/ QuotaChange
    \/ clearIdentity
    \/ \E ok \in BOOLEAN : keychainClearDone(ok)

SpecLogout == Init /\ [][NextLogout]_vars

\* records stored in and retrieved from the keychain
NextRetrieve ==
    \/ \E id \in KeychainIds, ident \in IdentityValues : storeIdentity(id, ident)
    \/ \E id \in KeychainIds, credential \in CredentialValues : storeCredential(id, credential)
    \/ \E id \in KeychainIds, text \in ForeignTexts : keychainSetForeign(id, text)
    \/ \E id \in KeychainIds : retrieveIdentity(id)
    \/ \E id \in KeychainIds : retrieveCredential(id)
    \/ keychainSetDone
    \/ keychainGetDone
    \/ Restart(FALSE)

SpecRetrieve == Init /\ [][NextRetrieve]_vars

\* the keychain-backed records over account resets
NextKeychain ==
    \/ \E id \in KeychainIds, ident \in IdentityValues : storeIdentity(id, ident)
    \/ \E id \in KeychainIds, credential \in CredentialValues : storeCredential(id, credential)
    \/ \E id \in KeychainIds : retrieveIdentity(id)
    \/ \E id \in KeychainIds : retrieveCredential(id)
    \/ keychainSetDone
    \/ keychainGetDone
    \/ clearIdentity
    \/ \E ok \in BOOLEAN : keychainClearDone(ok)
    \/ Restart(FALSE)

SpecKeychain == Init /\ [][NextKeychain]_vars

\* credential and presentation creation beside the store and the keychain
NextCreate ==
    \/ createCredential
    \/ \E ok \in BOOLEAN : createCredentialInit(ok)
    \/ \E ok, signed \in BOOLEAN : createCredentialResolve(ok, signed)
    \/ \E fulfilled, verified \in BOOLEAN : createCredentialCheck(fulfilled, verified)
    \/ createVerifiablePresentations
    \/ \E ok \in BOOLEAN : createVerifiablePresentationsInit(ok)
    \/ \E ok, signed \in BOOLEAN : createVerifiablePresentationsResolve(ok, signed)
    \/ \E fulfilled, verified \in BOOLEAN :
          createVerifiablePresentationsCheck(fulfilled, verified)
    \/ \E v \in HasSetupValues : hasSetupAccountSet(v)
    \/ \E id \in KeychainIds, credential \in CredentialValues : storeCredential(id, credential)
    \/ keychainSetDone
    \/ Restart(FALSE)

SpecCreate == Init /\ [][NextCreate]_vars

\* the nine cells of the store under sets, logout and the error timer
NextStore ==
    \/ \E v \in {Bool(TRUE), Bool(FALSE)} : hasSetupAccountSet(v)
    \/ \E v \in {Undefined, Str(<<"1">>)} : dataVersionSet(v)
    \/ \E v \in ModalStatusValues : modalStatusSet(v)
    \/ \E v \in LandingIndexValues : landingIndexSet(v)
    \/ \E v \in ActiveCredentialValues : activeCredentialForInfoSet(v)
    \/ \E v \in SocketConnectionValues : socketConnectionStateSet(v)
    \/ \E v \in QrCodeValues : qrCodeSet(v)
    \/ \E data \in DataValues : credentialsUpdate("personal", data)
    \/ \E v \in {Null, Str(<<"a">>)} : errorSet(v)
    \/ timerFire
    \/ advance
    \/ clearIdentity

SpecStore == Init /\ [][NextStore]_vars

\* the whole program
Next == NextStore \/ NextError \/ NextCells \/ NextLogout \/ NextRetrieve \/ NextKeychain \/ NextCreate

Spec == Init /\ [][Next]_vars

(***************************************************************************)
(* Properties.                                                            *)
(***************************************************************************)

\* C1: when a truthy error is replaced by another truthy error before the
\* timer is due, one auto-clear follows, ERROR_TIMEOUT after the latest change
\* of the cell and not after an earlier one: while the cell holds a truthy
\* value exactly one timer is pending, due ERROR_TIMEOUT after that value was
\* set; the timer callback runs at most once per value, at that age, and
\* leaves the cell null.
C1_AutoClearAfterLatestSet ==
    /\ Truthy(error) =>
          timers = {[id |-> errorTimeout, remaining |-> ERROR_TIMEOUT - errorAge]}
    /\ autoClears <= 1
    /\ autoClears = 1 => clearedAtAge = ERROR_TIMEOUT /\ error = Null /\ timers = {}

\* an error that replaced another one before its timer was due has been
\* cleared by the timer
C1_Witness ==
    /\ autoClears = 1
    /\ supersededAge > 0
    /\ supersededAge < ERROR_TIMEOUT
    /\ error = Null

\* C10: at most one error-clearing timer is pending in every reachable state.
C10_AtMostOneTimer == Cardinality(timers) <= 1

\* a timer is pending for an error that replaced an earlier, still shown one
C10_Witness ==
    /\ Cardinality(timers) = 1
    /\ supersededAge > 0
    /\ Truthy(error)
    /\ errorAge > 0


CellValue(key) == IF key = "hasSetupAccount" THEN hasSetupAccount ELSE dataVersion

\* the text the subscriber of a persistent cell stores for a value
Serialized(value) == Slot(ToStorageString(JSONstringify(value)))

\* C2: a value written through a persistent cell is the value of the cell
\* created for the same key after a restart on the same storage (the write
\* having been accepted by the storage).
C2_RoundTrip ==
    status = "running" =>
        \A k \in CellKeys : prev[k].ok => boot[k].value = prev[k].value

Unparsable(slot) == ~slot.has \/ ~JSONparse(slot.s).ok

C3_FreshDefaultTableAfterClear ==
    logout.called /\ logout.untouched =>
        /\ \A type \in CredentialTypes :
              entries[tables[credentials][type]] =
                  [heading |-> DefaultHeading(type),
                   subheading |-> DefaultSubheading(type),
                   data |-> Null]
        /\ credentials # defaultCredentials
        /\ credentials # logout.held
        /\ credentials \notin heldBefore
        /\ \A type, other \in CredentialTypes :
              tables[credentials][type] # tables[defaultCredentials][other]

\* C4: a clearIdentity() call carries out all four steps, also when one of
\* them fails.
C4_AllStepsCarriedOut == logout.called => logout.steps = LogoutSteps

\* C5: retrieveIdentity and retrieveCredential never reject; they resolve to
\* null when the keychain has no entry for the id or the entry does not parse,
\* and to a value equal to the stored one when the entry was written by
\* storeIdentity or storeCredential.
C5_RetrievalResolves ==
    retrieved.fn # "none" =>
        /\ retrieved.outcome = "resolved"
        /\ Unparsable(retrieved.read) => retrieved.value = Null
        /\ retrieved.origin.by \in {"storeIdentity", "storeCredential"} =>
              retrieved.value = retrieved.origin.v

\* retrieveIdentity gave back the identity storeIdentity had stored
C5_Witness ==
    /\ retrieved.fn = "retrieveIdentity"
    /\ retrieved.origin.by = "storeIdentity"
    /\ retrieved.read.has
    /\ retrieved.value \in IdentityValues

\* C8: createCredential and createVerifiablePresentations return the signed
\* JSON only after initialization, resolution, signing and verification have
\* succeeded, in that order and each once; a call that failed returns nothing
\* and stopped at the step that failed; no step of a call changes a store cell
\* or the keychain.
C8_AllOrNothing ==
    /\ [](\A f \in CreateFns :
            /\ calls[f].pc = "returned" =>
                  /\ calls[f].result = "signed"
                  /\ calls[f].log = <<[step |-> "init", ok |-> TRUE],
                                      [step |-> "resolve", ok |-> TRUE],
                                      [step |-> "sign", ok |-> TRUE],
                                      [step |-> "check", ok |-> TRUE]>>
            /\ calls[f].pc = "thrown" =>
                  /\ calls[f].result = "none"
                  /\ calls[f].log # <<>>
                  /\ \A i \in 1..Len(calls[f].log) :
                        /\ calls[f].log[i].step = <<"init", "resolve", "sign", "check">>[i]
                        /\ calls[f].log[i].ok = (i < Len(calls[f].log)))
    /\ [][(\E f \in CreateFns : calls'[f] # calls[f] /\ calls'[f].pc # "idle") =>
              UNCHANGED <<cellVars, credentialVars, keychainVars, plainVars>>]_vars

\* C9: a retrieval answered after the keychain purge of a clearIdentity() has
\* completed, and before the id is written again, resolves to null.
C9_NullAfterPurge ==
    retrieved.fn # "none" /\ retrieved.purged # "no" =>
        retrieved.outcome = "resolved" /\ retrieved.value = Null

\* an identity stored by storeIdentity was purged, and retrieveIdentity then
\* resolved to null
C9_Witness ==
    /\ retrieved.fn = "retrieveIdentity"
    /\ retrieved.purged = "storeIdentity"
    /\ retrieved.outcome = "resolved"
    /\ retrieved.value = Null

\* the cells of the store
Cells == {"hasSetupAccount", "dataVersion", "modalStatus", "landingIndex",
          "activeCredentialForInfo", "socketConnectionState", "qrCode", "credentials",
          "error"}

\* a step changes the cell: its value, for a persistent cell its slot as well,
\* for the credentials cell the table held or what the table contains
Changed(cell) ==
    CASE cell = "hasSetupAccount" ->
             \/ hasSetupAccount' # hasSetupAccount
             \/ localStorage'[cell] # localStorage[cell]
      [] cell = "dataVersion" ->
             \/ dataVersion' # dataVersion
             \/ localStorage'[cell] # localStorage[cell]
      [] cell = "modalStatus" -> modalStatus' # modalStatus
      [] cell = "landingIndex" -> landingIndex' # landingIndex
      [] cell = "activeCredentialForInfo" ->
             activeCredentialForInfo' # activeCredentialForInfo
      [] cell = "socketConnectionState" -> socketConnectionState' # socketConnectionState
      [] cell = "qrCode" -> qrCode' # qrCode
      [] cell = "credentials" ->
             \/ credentials' # credentials
             \/ [type \in CredentialTypes |-> entries'[tables'[credentials'][type]]]
                    # [type \in CredentialTypes |-> entries[tables[credentials][type]]]
      [] cell = "error" -> error' # error

\* C11: a step that is not a clearIdentity call changes at most one cell of
\* the store (a set changes its own cell and, for a persistent cell, its own
\* slot; the timer callback changes the error cell only), and a clearIdentity
\* call changes no cell other than hasSetupAccount, dataVersion and credentials.
C11_OneCellPerUpdate ==
    [][/\ clearIdentity =>
             \A cell \in Cells \ {"hasSetupAccount", "dataVersion", "credentials"} :
                 ~Changed(cell)
       /\ ~clearIdentity =>
             \A cell, other \in Cells : Changed(cell) /\ Changed(other) => cell = other]_vars

\* cells of every kind have been set, and a cell that never was keeps the value
\* and the slot it was created with
C11_Witness ==
    /\ hasSetupAccount = Bool(TRUE)
    /\ localStorage["hasSetupAccount"] = Slot(TxtTrue)
    /\ qrCode = "q"
    /\ modalStatus.active
    /\ Truthy(error)
    /\ Populated # {}
    /\ dataVersion = Undefined
    /\ localStorage["dataVersion"] = Slot(TxtUndefined)
    /\ ~wasSet["dataVersion"]
    /\ landingIndex = 0

\* C12: in every reachable state the table the credentials cell holds has
\* exactly the eight fixed keys, each with an entry object of its own; this
\* includes start-up and the states after a clearIdentity call, and until the
\* first update after start-up or after a clearIdentity call that reset the
\* table every data field is null.
C12_FixedKeySet ==
    /\ DOMAIN tables[credentials] =
           {"personal", "immunity", "visa", "company", "bank", "insurance",
            "futureCommitment", "presentCommitment"}
    /\ \A type \in DOMAIN tables[credentials] :
           tables[credentials][type] \in DOMAIN entries
    /\ Cardinality({tables[credentials][type] : type \in DOMAIN tables[credentials]}) = 8
    /\ logout.untouched /\ (logout.called => logout.steps = LogoutSteps) =>
           \A type \in DOMAIN tables[credentials] :
               entries[tables[credentials][type]].data = Null

\* the table was reset by a clearIdentity call and an entry populated afterwards
C12_Witness ==
    /\ logout.called
    /\ logout.steps = LogoutSteps
    /\ heldBefore # {}
    /\ credentials \notin heldBefore
    /\ Populated = {"personal"}

\* C13: between tasks a timer is pending if and only if the error cell holds a
\* non-empty value; the timer callback leaves the cell empty and no timer
\* pending; and, time passing and due timeouts running, a non-empty error is
\* eventually cleared.
C13_TimerIffError ==
    /\ [](timers # {} <=> Truthy(error))
    /\ [][timerFire => timers' = {} /\ ~Truthy(error')]_vars
    /\ (Truthy(error) ~> ~Truthy(error))

\* the cell was set to the empty string while the one timer scheduled so far
\* was its latest, and no timer is pending
C13_Witness ==
    /\ error = Str(<<>>)
    /\ timers = {}
    /\ errorTimeout = 1
    /\ nextTimerId = 2
    /\ autoClears = 0

=============================================================================
